---- MODULE Spec2Model ----
(***************************************************************************)
(* State-machine model of scripts/run_forecast.py: one invocation of       *)
(* main() reading one JSON document from stdin, loading the model          *)
(* artifact, normalising sizes, one-hot aligning the batch to the model's  *)
(* feature vocabulary, predicting, post-processing and printing exactly    *)
(* one JSON envelope.                                                      *)
(*                                                                         *)
(* Conventions.                                                            *)
(*  - A Python str is a tuple of one-character strings, so that strip(),   *)
(*    upper(), substring search, float() parsing and repr() are computed   *)
(*    character by character.  Its characters are those of AsciiOrder, and *)
(*    it has fewer than 10^9 of them (float() rejects longer literals).    *)
(*  - JSON null (Python None) is the value None; the NaN cell pandas puts  *)
(*    in a column for a record lacking the key is the value NaN.           *)
(*  - A Python float obtained by float(str) is a record                    *)
(*    [k |-> "num", neg, digs, pt] standing for (+/-) 0.d1 d2 ... dn *     *)
(*    10^pt, digs its significant decimal digits, or [k |-> "nan"], or     *)
(*    [k |-> "inf", neg].  The decimal is the shortest repr of the double: *)
(*    float() rounds the literal to the nearest double, ties to even, and  *)
(*    repr() writes the shortest digits that round back to it.  Doubles    *)
(*    are ordered as their reprs are, and truncate alike below 2^53.       *)
(*    int() of a float in encode_size is a TLC integer, below 2^31.        *)
(*  - pandas is a 2.x release: a column of str values has object dtype,    *)
(*    and a str stored into a float64 column makes it an object column.    *)
(*  - A prediction is a double, held as float() of its repr is.  An int64  *)
(*    of post-processing is a record [k |-> "int", neg, digs] of its sign  *)
(*    and decimal digits.                                                  *)
(*  - A size value of the input is a JSON string or null (the `size`       *)
(*    column then has object dtype).                                       *)
(*  - model.predict returns one double per matrix row, nan and inf         *)
(*    included, or it raises.                                              *)
(***************************************************************************)
EXTENDS Integers, Sequences, FiniteSets, TLC

VARIABLES
    stdin,          \* the document on stdin: [kind |-> "bad" | "object" | "list", items]
    artifact,       \* the file at MODEL_PATH: "absent", "corrupt" or "valid"
    vocab,          \* the model's feature names: [has |-> BOOLEAN, names |-> sequence]
    pc,             \* position of main()
    input_data,     \* result of json.load
    df,             \* the DataFrame handed from prepare_features to predict_demand
    X,              \* the feature matrix passed to model.predict
    predictions,    \* the vector model.predict returned (or the fallback)
    results,        \* per row: predicted_demand and recommended_stock
    predictFailed,  \* TRUE iff model.predict raised
    exc,            \* the pending exception, or NoExc
    stdout,         \* the JSON envelopes printed on stdout
    exitStatus,     \* the process exit status; -1 while main() runs
    encArg,         \* the argument of a call of the legacy encode_size
    encCode         \* the code that call returned; -2 before the call

vars == <<stdin, artifact, vocab, pc, input_data, df, X, predictions, results,
          predictFailed, exc, stdout, exitStatus, encArg, encCode>>

\* None and NaN are cells like any str, told apart by a marker no str holds
None    == <<"<None>">>
NaN     == <<"<NaN>">>
NoExc   == "NoExc"

-----------------------------------------------------------------------------
(* Python str helpers *)

LowerChars == <<"a","b","c","d","e","f","g","h","i","j","k","l","m",
                "n","o","p","q","r","s","t","u","v","w","x","y","z">>
UpperChars == <<"A","B","C","D","E","F","G","H","I","J","K","L","M",
                "N","O","P","Q","R","S","T","U","V","W","X","Y","Z">>
DigitChars == <<"0","1","2","3","4","5","6","7","8","9">>

\* the characters float() strips from the ends of a str: tab, line feed,
\* vertical tab, form feed, carriage return, space, U+0085 and U+00A0
FloatWhitespace == {"\t", "\n", "", "\f", "\r", " ", "", " "}

\* the characters str.strip() strips: those, and the separators U+001C to
\* U+001F, which float() leaves in place
StrWhitespace == FloatWhitespace \cup {"", "", "", ""}

\* code points, ascending, of the characters that occur in the model
AsciiOrder ==
    <<"\t", "\n", "", "\f", "\r", "", "", "", "",
      " ", "+", "-", ".">> \o DigitChars \o UpperChars \o <<"_">> \o LowerChars
    \o <<"", " ">>

IndexOf(seq, c) == CHOOSE i \in 1..Len(seq) : seq[i] = c
InSeq(seq, c)   == \E i \in 1..Len(seq) : seq[i] = c

\* str.upper()
Upper(s) ==
    [i \in 1..Len(s) |->
        IF InSeq(LowerChars, s[i]) THEN UpperChars[IndexOf(LowerChars, s[i])] ELSE s[i]]

\* str.lower()
Lower(s) ==
    [i \in 1..Len(s) |->
        IF InSeq(UpperChars, s[i]) THEN LowerChars[IndexOf(UpperChars, s[i])] ELSE s[i]]

\* s without the characters of ws at its two ends
StripOf(s, ws) ==
    LET keep == {i \in 1..Len(s) : s[i] \notin ws}
    IN  IF keep = {} THEN <<>>
        ELSE LET lo == CHOOSE i \in keep : \A j \in keep : i <= j
                 hi == CHOOSE i \in keep : \A j \in keep : j <= i
             IN  SubSeq(s, lo, hi)

\* str.strip()
Strip(s) == StripOf(s, StrWhitespace)

\* `sub in s` for strings
Contains(s, sub) ==
    \E i \in 1..(Len(s) - Len(sub) + 1) : SubSeq(s, i, i + Len(sub) - 1) = sub

Ord(c) == IndexOf(AsciiOrder, c)

\* Python's < on str: lexicographic by code point
StrLess(a, b) ==
    \E i \in 1..(Len(a) + 1) :
        /\ i <= Len(b)
        /\ \A j \in 1..(i - 1) : a[j] = b[j]
        /\ (i = Len(a) + 1 \/ Ord(a[i]) < Ord(b[i]))

\* str(v) of a cell: a str is itself, str(None) is 'None', str(nan) is 'nan'
PyStr(v) ==
    IF v = None THEN <<"N","o","n","e">>
    ELSE IF v = NaN THEN <<"n","a","n">>
    ELSE v

\* pd.isna(v) on a cell
IsNa(v) == v \in {None, NaN}

-----------------------------------------------------------------------------
(* float(): parsing, and the repr of the parsed value *)

DigitVal(c) == IndexOf(DigitChars, c) - 1

RECURSIVE DigitsVal(_)
DigitsVal(s) ==
    IF Len(s) = 0 THEN 0
    ELSE 10 * DigitsVal(SubSeq(s, 1, Len(s) - 1)) + DigitVal(s[Len(s)])

Zeros(n) == [i \in 1..n |-> "0"]

StripLeadingZeros(s) ==
    IF \A i \in 1..Len(s) : s[i] = "0" THEN <<>>
    ELSE SubSeq(s, CHOOSE i \in 1..Len(s) :
                       s[i] # "0" /\ \A j \in 1..(i - 1) : s[j] = "0", Len(s))

StripTrailingZeros(s) ==
    IF \A i \in 1..Len(s) : s[i] = "0" THEN <<>>
    ELSE SubSeq(s, 1, CHOOSE i \in 1..Len(s) :
                          s[i] # "0" /\ \A j \in (i + 1)..Len(s) : s[j] = "0")

\* a run of digits of a float literal: an underscore may stand between two digits
IsDigitPart(s) ==
    \A i \in 1..Len(s) :
        \/ InSeq(DigitChars, s[i])
        \/ /\ s[i] = "_" /\ 1 < i /\ i < Len(s)
           /\ InSeq(DigitChars, s[i - 1]) /\ InSeq(DigitChars, s[i + 1])

DropUnderscores(s) == SelectSeq(s, LAMBDA c : c # "_")

FloatErr == [k |-> "err"]

\* the number (+/-) 0.d1 d2 ... dn * 10^pt for the digits given, kept with
\* its significant digits only
Decimal(neg, digits, pt) ==
    LET lead == StripLeadingZeros(digits)
        sig  == StripTrailingZeros(lead)
    IN  IF sig = <<>> THEN [k |-> "num", neg |-> neg, digs |-> <<>>, pt |-> 0]
        ELSE [k |-> "num", neg |-> neg, digs |-> sig,
              pt |-> pt - (Len(digits) - Len(lead))]

RECURSIVE NatStr(_)
\* str(n) of a natural
NatStr(n) ==
    IF n < 10 THEN <<DigitChars[n + 1]>>
    ELSE NatStr(n \div 10) \o <<DigitChars[(n % 10) + 1]>>

\* n / 10^k for naturals n and k
DecOf(n, k) == Decimal(FALSE, NatStr(n), Len(NatStr(n)) - k)

\* |a| < |b| for two numbers
MagLess(a, b) ==
    IF b.digs = <<>> THEN FALSE
    ELSE IF a.digs = <<>> THEN TRUE
    ELSE IF a.pt # b.pt THEN a.pt < b.pt
    ELSE StrLess(a.digs, b.digs)

FloatSign(a) == IF a.digs = <<>> THEN 0 ELSE IF a.neg THEN -1 ELSE 1

\* a < b and a <= b for two numbers
FloatLess(a, b) ==
    IF FloatSign(a) # FloatSign(b) THEN FloatSign(a) < FloatSign(b)
    ELSE IF FloatSign(a) = 1 THEN MagLess(a, b)
    ELSE IF FloatSign(a) = -1 THEN MagLess(b, a)
    ELSE FALSE

-----------------------------------------------------------------------------
(* Naturals of any size, for the rounding float() and repr() do: limbs of  *)
(* four decimal digits, least significant first, no zero limb at the top   *)

BigTrim(a) ==
    IF \A i \in 1..Len(a) : a[i] = 0 THEN <<>>
    ELSE SubSeq(a, 1, CHOOSE i \in 1..Len(a) :
                          a[i] # 0 /\ \A j \in (i + 1)..Len(a) : a[j] = 0)

\* the natural written with the digits s
BigOfDigits(s) ==
    BigTrim([i \in 1..((Len(s) + 3) \div 4) |->
                DigitsVal(SubSeq(s, IF Len(s) - 4 * i + 1 > 1 THEN Len(s) - 4 * i + 1 ELSE 1,
                                 Len(s) - 4 * i + 4))])

\* a carry enters limb i of the column sums x (each below 20000 - 1): the
\* nearest lower limb that is not 9999 overflows
CarryIn(x, i) ==
    /\ i > 1
    /\ \/ x[i - 1] >= 10000
       \/ /\ x[i - 1] = 9999
          /\ \E j \in 1..(i - 2) :
                 x[j] >= 10000 /\ \A k \in (j + 1)..(i - 2) : x[k] = 9999

\* the natural whose column sums are x
BigCarry(x) ==
    BigTrim([i \in 1..(Len(x) + 1) |->
                ((IF i <= Len(x) THEN x[i] ELSE 0)
                 + (IF CarryIn(x, i) THEN 1 ELSE 0)) % 10000])

\* a * m + carry for 0 < m <= 10000 and a carry of 0 or 1
BigMulSmall(a, m, carry) ==
    BigCarry([i \in 1..(Len(a) + 1) |->
                (IF i <= Len(a) THEN (a[i] * m) % 10000 ELSE 0)
                + (IF i > 1 THEN (a[i - 1] * m) \div 10000 ELSE carry)])

\* 2^n and 10^n for small n
RECURSIVE BigMulPow2(_, _)
\* a * 2^n, by halves of the exponent
BigMulPow2(a, n) ==
    IF Len(a) > 0 /\ n > 13 THEN BigMulPow2(BigMulPow2(a, n \div 2), n - n \div 2)
    ELSE IF Len(a) = 0 \/ n = 0 THEN a
    ELSE BigMulSmall(a, <<1, 2, 4, 8, 16, 32, 64, 128, 256, 512, 1024, 2048, 4096, 8192>>[n + 1], 0)

\* a * 10^n
BigMulPow10(a, n) ==
    IF Len(a) = 0 \/ n = 0 THEN a
    ELSE [i \in 1..(n \div 4) |-> 0] \o BigMulSmall(a, <<1, 10, 100, 1000>>[(n % 4) + 1], 0)

\* -1, 0 or 1 as a < b, a = b or a > b
BigCmp(a, b) ==
    IF Len(a) # Len(b) THEN (IF Len(a) < Len(b) THEN -1 ELSE 1)
    ELSE IF a = b THEN 0
    ELSE IF \E i \in 1..Len(a) :
               a[i] < b[i] /\ \A j \in (i + 1)..Len(a) : a[j] = b[j]
         THEN -1 ELSE 1

BigAdd(a, b) ==
    BigCarry([i \in 1..(IF Len(a) > Len(b) THEN Len(a) ELSE Len(b)) |->
                (IF i <= Len(a) THEN a[i] ELSE 0) + (IF i <= Len(b) THEN b[i] ELSE 0)])

\* limb i of a - b before the borrows
LimbDiff(a, b, i) == a[i] - (IF i <= Len(b) THEN b[i] ELSE 0)

\* a borrow is taken from limb i: the nearest lower limb that differs is short
BorrowIn(a, b, i) ==
    /\ i > 1
    /\ \/ LimbDiff(a, b, i - 1) < 0
       \/ /\ LimbDiff(a, b, i - 1) = 0
          /\ \E j \in 1..(i - 2) :
                 LimbDiff(a, b, j) < 0
                 /\ \A k \in (j + 1)..(i - 2) : LimbDiff(a, b, k) = 0

\* a - b for a >= b
BigSub(a, b) ==
    IF Len(b) = 0 THEN a
    ELSE BigTrim([i \in 1..Len(a) |->
                (LimbDiff(a, b, i) - (IF BorrowIn(a, b, i) THEN 1 ELSE 0) + 10000) % 10000])

NonNeg(n) == IF n > 0 THEN n ELSE 0

\* a >= b * 2^t, for any integer t
BigGePow2(a, b, t) ==
    BigCmp(BigMulPow2(a, NonNeg(0 - t)), BigMulPow2(b, NonNeg(t))) >= 0

-----------------------------------------------------------------------------
(* repr(): the shortest digits that round to the double f * 2^e, by the    *)
(* free-format digit generation of Steele and White, Burger and Dybvig     *)

Two52 == BigMulPow2(<<1>>, 52)
Two53 == BigMulPow2(<<1>>, 53)

\* f * 2^(up - down) as r / s with the half gaps mp / s above and mm / s
\* below, the gap below half as wide when wide = 1, and no digit yet
DragonRatios(f, up, down, wide) ==
    [r  |-> BigMulPow2(f, up + 1 + wide),
     s  |-> BigMulPow2(<<1>>, down + 1 + wide),
     mp |-> BigMulPow2(<<1>>, up + wide),
     mm |-> BigMulPow2(<<1>>, up),
     digits |-> <<>>]

\* the double below a power of two is half as far as the one above, but at
\* the least exponent
DragonInit(f, e) ==
    DragonRatios(f, NonNeg(e), NonNeg(0 - e), IF f = Two52 /\ e # -1074 THEN 1 ELSE 0)

\* the same ratios with the value divided by 10^k
DragonShift(st, k) ==
    [st EXCEPT !.s  = BigMulPow10(@, NonNeg(k)),
               !.r  = BigMulPow10(@, NonNeg(0 - k)),
               !.mp = BigMulPow10(@, NonNeg(0 - k)),
               !.mm = BigMulPow10(@, NonNeg(0 - k))]

DragonTimes10(st) ==
    [st EXCEPT !.r = BigMulSmall(@, 10, 0),
               !.mp = BigMulSmall(@, 10, 0), !.mm = BigMulSmall(@, 10, 0)]

\* the upper end of the rounding interval reaches 1; an end belongs to the
\* interval of a double of even mantissa
DragonHigh(st, even) ==
    BigCmp(BigAdd(st.r, st.mp), st.s) >= (IF even THEN 0 ELSE 1)

\* the value is within the lower half gap of 0
DragonLow(st, even) ==
    BigCmp(st.r, st.mm) <= (IF even THEN 0 ELSE -1)

\* floor(r / s) for r < 10 s
QuotDigit(r, s) == Cardinality({j \in 1..9 : BigCmp(r, BigMulSmall(s, j, 0)) >= 0})

\* the digit d leaves the string and the remainder
DragonPut(st, d) ==
    [st EXCEPT !.r = BigSub(@, BigMulSmall(st.s, d, 0)), !.digits = Append(@, d)]

\* the next digit of a state already times 10
DragonTake(st) == DragonPut(st, QuotDigit(st.r, st.s))

\* the last digit, or the next one up
DragonBump(ds, up) == IF up THEN [ds EXCEPT ![Len(ds)] = @ + 1] ELSE ds

\* the string closes with its last digit, or the next one up, as is nearer
\* (c compares the remainder with a half), the even digit when as near
DragonNearer(ds, c) ==
    DragonBump(ds, c > 0 \/ (c = 0 /\ ds[Len(ds)] % 2 = 1))

DragonFinish(st, low, high) ==
    IF ~high THEN st.digits
    ELSE IF ~low THEN DragonBump(st.digits, TRUE)
    ELSE DragonNearer(st.digits, BigCmp(BigMulSmall(st.r, 2, 0), st.s))

RECURSIVE DragonGenerate(_, _)
\* digits until the rounding interval is reached
DragonGenerate(st, even) ==
    IF ~DragonLow(st, even) /\ ~DragonHigh(st, even)
    THEN DragonGenerate(DragonTake(DragonTimes10(st)), even)
    ELSE DragonFinish(st, DragonLow(st, even), DragonHigh(st, even))

RECURSIVE DragonDown(_, _, _)
\* k with 10^(k-1) <= upper end, for a state times 10 whose upper end is
\* below 10^(k+1); then the digits
DragonDown(st, k, even) ==
    IF ~DragonHigh(st, even) THEN DragonDown(DragonTimes10(st), k - 1, even)
    ELSE [k |-> k, digits |-> DragonGenerate(DragonTake(st), even)]

RECURSIVE DragonScale(_, _, _)
\* k with 10^(k-1) <= upper end < 10^k, then the digits
DragonScale(st, k, even) ==
    IF DragonHigh(st, even)
    THEN DragonScale([st EXCEPT !.s = BigMulSmall(@, 10, 0)], k + 1, even)
    ELSE DragonDown(DragonTimes10(st), k, even)

DragonDecimal(neg, res) ==
    [k |-> "num", neg |-> neg, pt |-> res.k,
     digs |-> [i \in 1..Len(res.digits) |-> DigitChars[res.digits[i] + 1]]]

\* the shortest decimal that rounds to the double f * 2^e, a value near 10^pt
ShortestRepr(neg, f, e, pt) ==
    DragonDecimal(neg, DragonScale(DragonShift(DragonInit(f, e), pt), pt, f[1] % 2 = 0))

-----------------------------------------------------------------------------
(* float(): the double nearest to a decimal, ties to the even mantissa *)

RECURSIVE FindExponent(_, _, _, _)
\* the largest t in lo..hi-1 with a >= b * 2^t, given that lo is one (or the
\* least exponent of a double) and hi is not
FindExponent(a, b, lo, hi) ==
    IF hi - lo <= 1 THEN lo
    ELSE IF BigGePow2(a, b, (lo + hi) \div 2)
         THEN FindExponent(a, b, (lo + hi) \div 2, hi)
    ELSE FindExponent(a, b, lo, (lo + hi) \div 2)

\* t if a >= b * 2^t is known to hold there, else the least exponent
BracketLow(a, b, t) == IF t > -1022 /\ BigGePow2(a, b, t) THEN t ELSE -1022

\* t if a >= b * 2^t is known to fail there, else past the largest exponent
BracketHigh(a, b, t) == IF t < 1024 /\ ~BigGePow2(a, b, t) THEN t ELSE 1024

\* the binary exponent of a / b, a value in [10^(pt-1), 10^pt), not below
\* -1022: searched around pt * log2(10), or over all the exponents
BinaryExponent(a, b, pt) ==
    FindExponent(a, b,
        BracketLow(a, b, ((IF pt > 0 THEN 3321 ELSE 3322) * (pt - 1)) \div 1000 - 2),
        BracketHigh(a, b, ((IF pt > 0 THEN 3322 ELSE 3321) * pt) \div 1000 + 2))

\* four more bits of a quotient by d: qr.q holds the bits so far and qr.r
\* the remainder, below d, times 16
DivPut(qr, d, h) ==
    [q |-> BigAdd(BigMulSmall(qr.q, 16, 0), IF h = 0 THEN <<>> ELSE <<h>>),
     r |-> BigMulSmall(BigSub(qr.r, BigMulSmall(d, h, 0)), 16, 0)]

DivTake(qr, d) ==
    DivPut(qr, d, Cardinality({j \in 1..15 : BigCmp(qr.r, BigMulSmall(d, j, 0)) >= 0}))

RECURSIVE DivBits(_, _, _)
\* 4 n more bits of the quotient; they are zeros once nothing remains
DivBits(qr, d, n) ==
    IF n > 0 /\ Len(qr.r) > 0 THEN DivBits(DivTake(qr, d), d, n - 1)
    ELSE [q |-> BigMulPow2(qr.q, 4 * n), r |-> qr.r]

\* the first bit of r / d, for r < 2 d, and 16 times the remainder
DivFirst(r, d, ge) ==
    [q |-> IF ge THEN <<1>> ELSE <<>>,
     r |-> BigMulSmall(IF ge THEN BigSub(r, d) ELSE r, 16, 0)]

\* the 53 leading bits of r / d, for d <= r < 2 d (or r < d below the least
\* exponent): the first bit, then 52 more; the result holds 16 times the
\* last remainder
DivMantissa(r, d) == DivBits(DivFirst(r, d, BigCmp(r, d) >= 0), d, 13)

\* round half to even: the mantissa q, or q + 1 (c compares the remainder
\* with half the divisor)
RoundUp(q, c) ==
    IF c > 0 \/ (c = 0 /\ Len(q) > 0 /\ q[1] % 2 = 1) THEN BigAdd(q, <<1>>) ELSE q

\* qr.r is 16 times the remainder
RoundMantissa(qr, d) == RoundUp(qr.q, BigCmp(qr.r, BigMulSmall(d, 8, 0)))

\* the double f * 2^e: zero, inf past the largest exponent, else its repr; a
\* mantissa rounded up to 2^53 is 2^52 an exponent up
DoubleOf(neg, f, e, pt) ==
    IF Len(f) = 0 THEN [k |-> "num", neg |-> neg, digs |-> <<>>, pt |-> 0]
    ELSE IF e + (IF f = Two53 THEN 1 ELSE 0) > 971 THEN [k |-> "inf", neg |-> neg]
    ELSE ShortestRepr(neg, IF f = Two53 THEN Two52 ELSE f,
                       e + (IF f = Two53 THEN 1 ELSE 0), pt)

\* the mantissa of r / d rounded to 53 bits, then the double
RoundQuotient(neg, r, d, e, pt) ==
    DoubleOf(neg, RoundMantissa(DivMantissa(r, d), d), e, pt)

\* a / b rounded to 53 bits at the exponent e
RoundAt(neg, a, b, e, pt) ==
    IF e + 52 >= 0 THEN RoundQuotient(neg, a, BigMulPow2(b, e + 52), e, pt)
    ELSE RoundQuotient(neg, BigMulPow2(a, 0 - (e + 52)), b, e, pt)

\* the double nearest to the ratio a / b
NearestRatio(neg, a, b, pt) ==
    IF pt > 308 /\ BigGePow2(a, b, 1024) THEN [k |-> "inf", neg |-> neg]
    ELSE RoundAt(neg, a, b, BinaryExponent(a, b, pt) - 52, pt)

\* the decimal f as a ratio of naturals
Numerator(f) == BigMulPow10(BigOfDigits(f.digs), NonNeg(f.pt - Len(f.digs)))
Denominator(f) == BigMulPow10(<<1>>, NonNeg(Len(f.digs) - f.pt))

\* the double nearest to a decimal, as its shortest repr.  A decimal of at
\* most 15 significant digits in the normal range is the shortest repr of
\* the double nearest to it (DBL_DIG = 15)
ToDouble(f) ==
    IF Len(f.digs) <= 15 /\ (f.digs = <<>> \/ (-306 <= f.pt /\ f.pt <= 308)) THEN f
    ELSE IF -330 <= f.pt /\ f.pt <= 310
    THEN NearestRatio(f.neg, Numerator(f), Denominator(f), f.pt)
    ELSE IF f.pt > 310 THEN [k |-> "inf", neg |-> f.neg]
    ELSE [k |-> "num", neg |-> f.neg, digs |-> <<>>, pt |-> 0]


\* the value of the digits of an exponent: the strtod of float() skips the
\* leading zeros and reads an exponent of more than nine digits as the largest
\* it holds, 1100000000 (one of nine digits is below it)
ExponentVal(s) ==
    LET d == StripLeadingZeros(DropUnderscores(s))
    IN  IF Len(d) > 9 THEN 1100000000 ELSE DigitsVal(d)

\* the exponent after e/E: an optional sign and a digit part; "err" if malformed
ParseExponent(s) ==
    LET signed == Len(s) > 0 /\ s[1] \in {"+", "-"}
        body   == IF signed THEN Tail(s) ELSE s
    IN  IF Len(body) = 0 \/ ~IsDigitPart(body) THEN [ok |-> FALSE, val |-> 0]
        ELSE [ok |-> TRUE,
              val |-> IF signed /\ s[1] = "-" THEN 0 - ExponentVal(body)
                      ELSE ExponentVal(body)]

\* the mantissa digits[.digits] scaled by 10^ex
ParseMantissa(s, neg, ex) ==
    LET dots == {i \in 1..Len(s) : s[i] = "."}
        d    == IF dots = {} THEN Len(s) + 1 ELSE CHOOSE i \in dots : TRUE
        ip   == SubSeq(s, 1, d - 1)
        fp   == SubSeq(s, d + 1, Len(s))
    IN  IF /\ Cardinality(dots) <= 1
           /\ IsDigitPart(ip) /\ IsDigitPart(fp)
           /\ Len(ip) + Len(fp) > 0
        THEN ToDouble(Decimal(neg, DropUnderscores(ip) \o DropUnderscores(fp),
                              Len(DropUnderscores(ip)) + ex))
        ELSE FloatErr

\* the exponent of a literal with e/E at the places exps: 0 without one
ExponentPart(s, exps) ==
    IF exps = {} THEN [ok |-> TRUE, val |-> 0]
    ELSE ParseExponent(SubSeq(s, (CHOOSE i \in exps : TRUE) + 1, Len(s)))

\* the part of the literal before its e/E
MantissaPart(s, exps) ==
    IF exps = {} THEN s ELSE SubSeq(s, 1, (CHOOSE i \in exps : TRUE) - 1)

ParseScaled(s, neg, ex) == IF ex.ok THEN ParseMantissa(s, neg, ex.val) ELSE FloatErr

\* the places of e/E in a lower-cased literal
ExponentMarks(low) == {i \in 1..Len(low) : low[i] = "e"}

\* float(s) of an unsigned body: nan, inf, infinity in any case, or
\* digits[.digits][e[sign]digits]
ParseUnsigned(s, neg) ==
    IF Lower(s) = <<"n","a","n">> THEN [k |-> "nan"]
    ELSE IF Lower(s) \in {<<"i","n","f">>, <<"i","n","f","i","n","i","t","y">>}
         THEN [k |-> "inf", neg |-> neg]
    ELSE IF Cardinality(ExponentMarks(Lower(s))) > 1 THEN FloatErr
    ELSE ParseScaled(MantissaPart(s, ExponentMarks(Lower(s))), neg,
                     ExponentPart(s, ExponentMarks(Lower(s))))

\* a stripped literal: an optional sign, then the body
ParseSigned(s) ==
    IF Len(s) = 0 THEN FloatErr
    ELSE ParseUnsigned(IF s[1] \in {"+", "-"} THEN Tail(s) ELSE s, s[1] = "-")

\* float(v): None raises TypeError, a NaN cell is already the float nan,
\* a str is stripped of whitespace, an optional sign read, then the body parsed
PyFloat(v) ==
    IF v = None THEN FloatErr
    ELSE IF v = NaN THEN [k |-> "nan"]
    ELSE ParseSigned(StripOf(v, FloatWhitespace))

\* float_repr_style 'short': exponent form when the decimal point lies more
\* than three places before or more than sixteen places after the first digit
FloatStr(f) ==
    IF f.k = "nan" THEN <<"n","a","n">>
    ELSE IF f.k = "inf" THEN (IF f.neg THEN <<"-">> ELSE <<>>) \o <<"i","n","f">>
    ELSE (IF f.neg THEN <<"-">> ELSE <<>>) \o
         (IF f.digs = <<>> THEN <<"0", ".", "0">>
          ELSE IF f.pt <= -4 \/ f.pt > 16 THEN
               LET e  == f.pt - 1
                   ed == NatStr(IF e < 0 THEN 0 - e ELSE e)
               IN  <<f.digs[1]>>
                   \o (IF Len(f.digs) > 1 THEN <<".">> \o Tail(f.digs) ELSE <<>>)
                   \o <<"e", IF e < 0 THEN "-" ELSE "+">>
                   \o (IF Len(ed) < 2 THEN <<"0">> ELSE <<>>) \o ed
          ELSE IF f.pt <= 0 THEN <<"0", ".">> \o Zeros(0 - f.pt) \o f.digs
          ELSE IF f.pt >= Len(f.digs)
               THEN f.digs \o Zeros(f.pt - Len(f.digs)) \o <<".", "0">>
          ELSE SubSeq(f.digs, 1, f.pt) \o <<".">> \o SubSeq(f.digs, f.pt + 1, Len(f.digs)))

\* int(f): truncation toward zero, as a signed integer
FloatInt(f) ==
    LET n == IF f.pt <= 0 THEN 0
             ELSE IF f.pt >= Len(f.digs)
                  THEN DigitsVal(f.digs \o Zeros(f.pt - Len(f.digs)))
             ELSE DigitsVal(SubSeq(f.digs, 1, f.pt))
    IN  IF f.neg THEN 0 - n ELSE n

RECURSIVE MulDigits(_, _, _)
\* the digits of s * m + carry, for a digit string s and a small natural m
MulDigits(s, m, carry) ==
    IF Len(s) = 0 THEN (IF carry = 0 THEN <<>> ELSE NatStr(carry))
    ELSE LET v == m * DigitVal(s[Len(s)]) + carry
         IN  MulDigits(SubSeq(s, 1, Len(s) - 1), m, v \div 10)
             \o <<DigitChars[(v % 10) + 1]>>

\* the double f * m for a normal double f and a power of two m, as its
\* shortest repr: the product of the doubles is exact, and the repr of f
\* times m rounds to it
FloatTimes(f, m) ==
    LET p == MulDigits(f.digs, m, 0)
    IN  ToDouble(Decimal(f.neg, p, f.pt + (Len(p) - Len(f.digs))))

-----------------------------------------------------------------------------
(* Legacy ordinal encoder, run_forecast.py:62-87 *)

\* size_map of encode_size, as (token, code) pairs
EncodeSizeMap ==
    { <<<<"X","S">>, 0>>, <<<<"S">>, 1>>, <<<<"M">>, 2>>, <<<<"L">>, 3>>,
      <<<<"X","L">>, 4>>, <<<<"2","X","L">>, 5>>, <<<<"3","X","L">>, 6>>,
      <<<<"X","X","L">>, 7>>, <<<<"X","X","X","L">>, 8>>,
      <<<<"4","X","L">>, 9>>, <<<<"5","X","L">>, 10>> }

\* a <= f <= b for a parsed number f and a, b given in tenths; a comparison
\* with nan or with a float() that raised is not true
FloatBetween(f, a10, b10) ==
    /\ f.k = "num"
    /\ ~FloatLess(f, DecOf(a10, 1))
    /\ ~FloatLess(DecOf(b10, 1), f)

\* the numeric branch of encode_size (lines 77-87)
EncodeNumeric(size) ==
    LET f == PyFloat(size)
    IN  IF f.k # "num" THEN -1            \* float() raised, or int(nan)/int(inf) raised
        ELSE IF FloatBetween(f, 40, 130) THEN FloatInt(f) + 6
        ELSE IF FloatBetween(f, 65, 80)
             THEN FloatInt(FloatTimes(f, 4)) + 5
        ELSE FloatInt(f)

encode_size(size) ==
    IF IsNa(size) \/ size = <<>> THEN -1
    ELSE IF \E e \in EncodeSizeMap : e[1] = size
         THEN (CHOOSE e \in EncodeSizeMap : e[1] = size)[2]
    ELSE EncodeNumeric(size)

-----------------------------------------------------------------------------
(* Size normalisation, run_forecast.py:89-159 *)

\* the entries of normalize_cloth_size's size_map that change the token
ClothSynonym(t) ==
    IF t = <<"2","X","L">> THEN <<"X","X","L">>
    ELSE IF t = <<"3","X","L">> THEN <<"X","X","X","L">>
    ELSE t

\* normalize_cloth_size: None for a missing value, else the mapped token
normalize_cloth_size(size) ==
    IF IsNa(size) THEN None
    ELSE ClothSynonym(Upper(Strip(PyStr(size))))


\* the branch the loop of prepare_features takes for a row
Family(type_cell) ==
    LET uniform_type == Upper(PyStr(type_cell))
    IN  IF Contains(uniform_type, <<"B","A","J","U">>) THEN "APPAREL"
        ELSE IF \/ Contains(uniform_type, <<"B","O","O","T">>)
                \/ Contains(uniform_type, <<"B","E","R","E","T">>) THEN "MEASURED"
        ELSE "OTHER"

\* the value stored in size_normalized: [t |-> "str", s], [t |-> "float", f] or [t |-> "none"]
NormNone == [t |-> "none"]
\* lines 141-144: the float stored, or None when float() raised
FloatOrNone(f) == IF f.k = "err" THEN NormNone ELSE [t |-> "float", f |-> f]

NormalizeMeasured(original_size) == FloatOrNone(PyFloat(original_size))

NormalizeOther(original_size) == [t |-> "str", s |-> PyStr(original_size)]

\* line 138: the token stored, None staying None
ClothOrNone(n) == IF n = None THEN NormNone ELSE [t |-> "str", s |-> n]

\* lines 137-147 for a row of the given family
NormalizeFamily(fam, original_size) ==
    IF fam = "APPAREL" THEN ClothOrNone(normalize_cloth_size(original_size))
    ELSE IF fam = "MEASURED" THEN NormalizeMeasured(original_size)
    ELSE NormalizeOther(original_size)

NormalizeSize(type_cell, original_size) ==
    NormalizeFamily(Family(type_cell), original_size)

\* Series.notna() on a size_normalized cell
NotNa(n) == n.t = "str" \/ (n.t = "float" /\ n.f.k # "nan")

\* astype(str) on a surviving size_normalized cell
NormStr(n) == IF n.t = "str" THEN n.s ELSE FloatStr(n.f)

\* pd.DataFrame(list of dicts): the columns are the keys of all records,
\* a record lacking a key holds NaN in that column
Columns(data) == UNION {DOMAIN data[i] : i \in 1..Len(data)}
RawCell(rec, col) == IF col \in DOMAIN rec THEN rec[col] ELSE NaN

\* dtype inference of a column: one that holds no str, only None and at
\* least one NaN, becomes float64, every None in it NaN
IsFloatColumn(data, col) ==
    /\ \A i \in 1..Len(data) : IsNa(RawCell(data[i], col))
    /\ \E i \in 1..Len(data) : RawCell(data[i], col) = NaN

\* df.at[i, col] of the frame built from data
Cell(data, i, col) ==
    IF IsFloatColumn(data, col) THEN NaN ELSE RawCell(data[i], col)

TypeColumn(cols) ==
    IF "type" \in cols THEN "type"
    ELSE IF "uniform_type" \in cols THEN "uniform_type"
    ELSE "absent"

\* row i of the frame, given its type cell and its normalised size
RowOf(data, i, utg, norm) ==
    [ idx |-> i,
      type |-> Cell(data, i, "type"),
      uniform_type |-> Cell(data, i, "uniform_type"),
      category |-> Cell(data, i, "category"),
      uniform_type_gendered |-> utg,
      size_normalized |-> norm,
      size |-> IF NotNa(norm) THEN NormStr(norm) ELSE <<>> ]

\* one row of the frame after the normalisation loop
MakeRow(data, i, cols) ==
    RowOf(data, i, Cell(data, i, TypeColumn(cols)),
          NormalizeSize(Cell(data, i, TypeColumn(cols)), Cell(data, i, "size")))

\* line 150 for one row: kept iff its size_normalized is not missing
KeepRow(row) == IF NotNa(row.size_normalized) THEN <<row>> ELSE <<>>

RECURSIVE FilterRows(_, _, _)
\* df[df['size_normalized'].notna()] : the surviving rows, in input order
FilterRows(data, i, cols) ==
    IF i > Len(data) THEN <<>>
    ELSE KeepRow(MakeRow(data, i, cols)) \o FilterRows(data, i + 1, cols)

ValueError(msg) == [type |-> "ValueError", msg |-> msg]
NoException     == [type |-> NoExc, msg |-> ""]

\* lines 152-159: the frame returned, or the error for an emptied one
CheckNotEmpty(cols, rows) ==
    IF Len(rows) = 0 THEN
        [exc |-> ValueError("No valid data after filtering null sizes"),
         cols |-> cols, rows |-> <<>>]
    ELSE [exc |-> NoException, cols |-> cols, rows |-> rows]

\* prepare_features: [exc, cols, rows]
prepare_features(historical_data) ==
    LET cols == Columns(historical_data)
    IN  IF TypeColumn(cols) = "absent" THEN
            [exc |-> ValueError("historical_data must contain 'type' or 'uniform_type' column"),
             cols |-> cols, rows |-> <<>>]
        ELSE IF "size" \notin cols THEN
            [exc |-> ValueError("historical_data must contain 'size' column"),
             cols |-> cols, rows |-> <<>>]
        ELSE CheckNotEmpty(cols, FilterRows(historical_data, 1, cols))

-----------------------------------------------------------------------------
(* One-hot encoding and alignment, run_forecast.py:185-229 *)

\* a column name "<field>_<value>" is the pair [f |-> field, v |-> value]
ColName(field, value) == [f |-> field, v |-> value]

\* the distinct non-missing values of a column of the frame
DistinctValues(rows, field) ==
    {rows[i][field] : i \in 1..Len(rows)} \ {None, NaN}

RECURSIVE SortedValues(_)
\* the categories of a column, in ascending str order
SortedValues(S) ==
    IF S = {} THEN <<>>
    ELSE LET m == CHOOSE a \in S : \A b \in S \ {a} : StrLess(a, b)
         IN  <<m>> \o SortedValues(S \ {m})

FieldColumns(rows, field) ==
    LET vals == SortedValues(DistinctValues(rows, field))
    IN  [j \in 1..Len(vals) |-> ColName(field, vals[j])]

\* pd.get_dummies(X_for_encoding, columns=['uniform_type_gendered', 'size'])
get_dummies(rows) ==
    LET cols == FieldColumns(rows, "uniform_type_gendered") \o FieldColumns(rows, "size")
    IN  [ columns |-> cols,
          values  |-> [r \in 1..Len(rows) |->
                         [j \in 1..Len(cols) |->
                            IF rows[r][cols[j].f] = cols[j].v THEN 1 ELSE 0]] ]

\* faulty variant: the batch's own one-hot table used whatever the model expects
AlignFeatures_BatchOrder(X_encoded, expected_features) == X_encoded.values

\* lines 206-226: the matrix handed to model.predict
AlignFeatures(X_encoded, expected_features) ==
    IF expected_features.has
    THEN [r \in 1..Len(X_encoded.values) |->
            [i \in 1..Len(expected_features.names) |->
               IF \E j \in 1..Len(X_encoded.columns) :
                      X_encoded.columns[j] = expected_features.names[i]
               THEN X_encoded.values[r][CHOOSE j \in 1..Len(X_encoded.columns) :
                        X_encoded.columns[j] = expected_features.names[i]]
               ELSE 0]]
    ELSE X_encoded.values

-----------------------------------------------------------------------------
(* Post-processing, run_forecast.py:238-252 *)

\* an int64, by its sign and its decimal digits
Int64(neg, digs) == [k |-> "int", neg |-> neg, digs |-> digs]
Int64Of(n) == Int64(n < 0, NatStr(IF n < 0 THEN 0 - n ELSE n))

\* the least int64, -2^63
Int64Min ==
    Int64(TRUE, <<"9","2","2","3","3","7","2","0","3","6","8","5","4","7","7","5","8","0","8">>)

\* astype(int) of a double that is nan or beyond int64 is undefined in C: the
\* conversion instruction of x86-64 gives -2^63 for each of them, the one of
\* AArch64 gives 0 for nan and the nearest int64 otherwise
Builds == {"x86_64", "aarch64"}
CastInvalid(build) == IF build = "x86_64" THEN Int64Min ELSE Int64Of(0)
CastOverflow(build, neg) ==
    IF build = "x86_64" \/ neg THEN Int64Min
    ELSE Int64(FALSE, <<"9","2","2","3","3","7","2","0","3","6",
                        "8","5","4","7","7","5","8","0","7">>)

\* the four digits of a limb
LimbDigits(n) ==
    <<DigitChars[(n \div 1000) + 1], DigitChars[((n \div 100) % 10) + 1],
      DigitChars[((n \div 10) % 10) + 1], DigitChars[(n % 10) + 1]>>

\* the decimal digits of a natural
BigDigits(a) ==
    IF Len(a) = 0 THEN <<"0">>
    ELSE StripLeadingZeros([i \in 1..(4 * Len(a)) |->
             LimbDigits(a[Len(a) - (i - 1) \div 4])[((i - 1) % 4) + 1]])

\* the digits before the decimal point of a number not below 0
TruncDigits(f) ==
    IF f.pt <= 0 THEN <<>>
    ELSE IF f.pt >= Len(f.digs) THEN f.digs \o Zeros(f.pt - Len(f.digs))
    ELSE SubSeq(f.digs, 1, f.pt)

\* a, for 2^t <= a < 2^(t+1), rounded to 53 bits
NaturalAt(a, t) ==
    IF t <= 52 THEN a
    ELSE BigMulPow2(RoundMantissa(DivMantissa(a, BigMulPow2(<<1>>, t)),
                                  BigMulPow2(<<1>>, t)), t - 52)

\* the double nearest to the natural a, a number of about pt digits: a
\* itself below 2^53
FloatOfNatural(a, pt) ==
    IF BigCmp(a, Two53) < 0 THEN a ELSE NaturalAt(a, BinaryExponent(a, <<1>>, pt))

\* astype(int) of a double that is a natural
CastNatural(n, build) ==
    IF BigCmp(n, BigMulPow2(<<1>>, 63)) >= 0 THEN CastOverflow(build, FALSE)
    ELSE Int64(FALSE, BigDigits(n))

\* faulty variant: a fallback vector of zeros
FallbackPredictions_Zero(n) == [i \in 1..n |-> Decimal(FALSE, <<>>, 0)]

\* the fallback vector np.array([2] * len(input_df))
FallbackPredictions(n) == [i \in 1..n |-> Decimal(FALSE, <<"2">>, 1)]

\* np.maximum(p, 0).astype(int) of a raw prediction: nan stays nan under
\* np.maximum, a negative number becomes 0, and the cast truncates.  The
\* double of a repr that is a natural is the double nearest to it
ClampToInt(p, build) ==
    IF p.k = "nan" THEN CastInvalid(build)
    ELSE IF p.k = "inf" THEN (IF p.neg THEN Int64Of(0) ELSE CastOverflow(build, FALSE))
    ELSE IF p.neg THEN Int64Of(0)
    ELSE CastNatural(FloatOfNatural(BigOfDigits(TruncDigits(p)), p.pt), build)

\* n * m, where the double 1.15 is m / 2^52 for m = 5179139571476070
Times115(n) ==
    IF Len(n) = 0 THEN n ELSE
    BigAdd(BigAdd(BigMulSmall(n, 6070, 0), <<0>> \o BigMulSmall(n, 7147, 0)),
           BigAdd(<<0, 0>> \o BigMulSmall(n, 1395, 0),
                  <<0, 0, 0>> \o BigMulSmall(n, 5179, 0)))

RECURSIVE BigMulPow5(_, _)
\* a * 5^n
BigMulPow5(a, n) ==
    IF Len(a) > 0 /\ n >= 5 THEN BigMulPow5(BigMulSmall(a, 3125, 0), n - 5)
    ELSE IF Len(a) = 0 THEN a
    ELSE BigMulSmall(a, <<1, 5, 25, 125, 625>>[n + 1], 0)

\* -1, 0 or 1 as the fraction 0.frac is below, at or above one half
HalfCmp(frac) ==
    IF frac[1] # "5" THEN (IF DigitVal(frac[1]) > 5 THEN 1 ELSE -1)
    ELSE IF \A i \in 2..Len(frac) : frac[i] = "0" THEN 0 ELSE 1

\* the natural nearest to 0.ds * 10^(Len(ds) - 52), an exact tie to the even
\* one, for more than 52 digits ds
RoundDigits(ds) ==
    RoundUp(BigOfDigits(SubSeq(ds, 1, Len(ds) - 52)),
            HalfCmp(SubSeq(ds, Len(ds) - 51, Len(ds))))

\* max(int(x), 2) of a stock cast to int64
AtLeastTwo(st) ==
    IF st.neg \/ st.digs \in {<<"0">>, <<"1">>} THEN Int64Of(2) ELSE st

\* lines 245-250, given x * 10^52 for the double x = d * 1.15 as m * 5^52:
\* ndarray.round(), astype(int), max(int(x), 2)
StockOfScaled(x, build) ==
    IF Len(x) = 0 THEN Int64Of(2)
    ELSE AtLeastTwo(CastNatural(RoundDigits(Zeros(52) \o BigDigits(x)), build))

\* the same, given the double x = d * 1.15 as m / 2^52 = m * 5^52 / 10^52
StockOfProduct(m, build) ==
    IF Len(m) = 0 THEN Int64Of(2) ELSE StockOfScaled(BigMulPow5(m, 52), build)

\* the same, given float(d) * 5179139571476070, a natural of about pt digits
StockOfExact(p, pt, build) ==
    IF Len(p) = 0 THEN Int64Of(2) ELSE StockOfProduct(FloatOfNatural(p, pt), build)

\* the same, given float(d)
StockOfFloat(n, pt, build) ==
    IF Len(n) = 0 THEN Int64Of(2) ELSE StockOfExact(Times115(n), pt + 16, build)

\* the same, given the natural d of pt digits
StockOfNatural(d, pt, build) ==
    IF Len(d) = 0 THEN Int64Of(2) ELSE StockOfFloat(FloatOfNatural(d, pt), pt, build)

\* lines 245-250 for a demand d: the double d * 1.15 is the double nearest
\* to float(d) * m / 2^52, rounded and cast back.  A demand below zero has a
\* product below -1, which rounds or casts to a negative int64
RecommendedStock(d, build) ==
    IF d.neg THEN Int64Of(2)
    ELSE StockOfNatural(BigOfDigits(d.digs), Len(d.digs), build)

\* lines 241-250 for one row
PostProcessRow(p, build) ==
    LET d == ClampToInt(p, build)
    IN  [predicted_demand |-> d, recommended_stock |-> RecommendedStock(d, build)]

-----------------------------------------------------------------------------
(* Envelopes and exceptions, run_forecast.py:24-30, 254-317 *)

FileNotFoundError(msg) == [type |-> "FileNotFoundError", msg |-> msg]
OtherException(msg)    == [type |-> "Exception", msg |-> msg]

RemediationMessage ==
    "Model file not found. Please ensure the model is uploaded to models/uniform_forecast.pkl"

\* faulty variant: a missing file reported as a plain Exception
load_model_PlainError(art) ==
    IF art \in {"absent", "corrupt"} THEN OtherException("Model file not found: MODEL_PATH")
    ELSE NoException

\* load_model: the exception it raises, if any
load_model(art) ==
    IF art = "absent" THEN FileNotFoundError("Model file not found: MODEL_PATH")
    ELSE IF art = "corrupt" THEN OtherException("joblib.load failed")
    ELSE NoException

\* line 265
EmptyEnvelope == [success |-> TRUE, recommendations |-> <<>>]

\* lines 293-297
SuccessEnvelope(recommendations) ==
    [success |-> TRUE, recommendations |-> recommendations,
     count |-> Len(recommendations)]

\* lines 302-306
NotFoundEnvelope(e) ==
    [success |-> FALSE, error |-> e.msg, message |-> RemediationMessage]

\* lines 311-315
ErrorEnvelope(e) ==
    [success |-> FALSE, error |-> e.msg, message |-> "Prediction error: " \o e.msg]

\* row.get(col, default): the default only when the frame has no such column
RowGet(frame, row, col, default) == IF col \in frame.cols THEN row[col] ELSE default

\* lines 283-289
Recommendation(frame, row, res) ==
    [ category |-> PyStr(RowGet(frame, row, "category",
                     RowGet(frame, row, "uniform_type", <<"O","t","h","e","r","s">>))),
      type |-> PyStr(RowGet(frame, row, "type",
                     RowGet(frame, row, "uniform_type", <<"U","n","k","n","o","w","n">>))),
      size |-> row.size,
      forecasted_demand |-> res.predicted_demand,
      recommended_stock |-> res.recommended_stock ]

-----------------------------------------------------------------------------
(* Inputs *)

\* the longest input batch
MaxBatch == 2

S_BAJU4 == <<"B","A","J","U","_","N","O","_","4">>
S_Boot  == <<"B","o","o","t">>
S_Belt  == <<"B","e","l","t">>

SampleRecords ==
    { [type |-> S_BAJU4, size |-> <<" ","2","x","l","\t">>],
      [type |-> S_BAJU4, size |-> <<>>],
      [type |-> S_BAJU4, size |-> None],
      [type |-> S_Boot,  size |-> <<"9","\n">>],
      [type |-> S_Boot,  size |-> <<"1","e","-","5">>],
      [type |-> <<"B","e","r","e","t">>, size |-> <<"w","i","d","e">>],
      [type |-> S_Belt,  size |-> None],
      [uniform_type |-> S_BAJU4, size |-> <<" ","m"," ">>,
       category |-> <<"U","n","i","f","o","r","m","_","4">>],
      [type |-> S_Belt],
      [size |-> <<"9">>] }

Stdins ==
    {[kind |-> "bad", items |-> <<>>], [kind |-> "object", items |-> <<>>]}
    \cup {[kind |-> "list", items |-> b] :
            b \in UNION {[1..n -> SampleRecords] : n \in 0..MaxBatch}}

NoVocab == [has |-> FALSE, names |-> <<>>]

\* feature_names_in_ of two trained models
Vocabularies ==
    { NoVocab,
      [has |-> TRUE, names |->
         << ColName("uniform_type_gendered", S_BAJU4),
            ColName("uniform_type_gendered", <<"B","O","O","T">>),
            ColName("size", <<"9",".","0">>),
            ColName("size", <<"M">>),
            ColName("size", <<"X","X","L">>) >>],
      [has |-> TRUE, names |->
         << ColName("size", <<"X","X","L">>),
            ColName("uniform_type_gendered", S_Belt),
            ColName("size", <<"N","o","n","e">>) >>] }

\* what model.predict may return for a row: a negative double, a fractional
\* one whose demand 170 has the product 195.49999999999997, nan, inf, a double
\* whose stock is beyond int64 and a double beyond int64
PredictionValues ==
    { PyFloat(<<"-","1",".","5">>), PyFloat(<<"1","7","0",".","9">>),
      PyFloat(<<"n","a","n">>), PyFloat(<<"i","n","f">>),
      PyFloat(<<"9","e","1","8">>), PyFloat(<<"1","e","1","9">>) }

\* lines 240-250 on each double a prediction can hold, for each build
PostProcessed ==
    [p \in PredictionValues \cup {FallbackPredictions(1)[1]} |->
        [build \in Builds |-> PostProcessRow(p, build)]]

-----------------------------------------------------------------------------
(* main(), run_forecast.py:254-317 *)

Raise(e) ==
    /\ exc' = e
    /\ pc' = "except"

InitCommon ==
    /\ input_data = [kind |-> "unset", items |-> <<>>]
    /\ df = [cols |-> {}, rows |-> <<>>]
    /\ X = <<>>
    /\ predictions = <<>>
    /\ results = <<>>
    /\ predictFailed = FALSE
    /\ exc = NoException
    /\ stdout = <<>>
    /\ exitStatus = -1

Init ==
    /\ stdin \in Stdins
    /\ artifact \in {"absent", "corrupt", "valid"}
    /\ vocab \in (IF artifact = "valid" THEN Vocabularies ELSE {NoVocab})
    /\ pc = "read"
    /\ InitCommon
    /\ encArg = <<>>
    /\ encCode = -2

\* line 258: json.load(sys.stdin)
ReadInput ==
    /\ pc = "read"
    /\ IF stdin.kind = "bad"
       THEN /\ Raise(ValueError("Expecting value: line 1 column 1 (char 0)"))
            /\ UNCHANGED input_data
       ELSE /\ input_data' = stdin
            /\ pc' = "check_list"
            /\ UNCHANGED exc
    /\ UNCHANGED <<stdin, artifact, vocab, df, X, predictions, results,
                   predictFailed, stdout, exitStatus, encArg, encCode>>

\* lines 260-261
CheckList ==
    /\ pc = "check_list"
    /\ IF input_data.kind # "list"
       THEN Raise(ValueError("Input must be a JSON array of historical data records"))
       ELSE pc' = "check_empty" /\ UNCHANGED exc
    /\ UNCHANGED <<stdin, artifact, vocab, input_data, df, X, predictions, results,
                   predictFailed, stdout, exitStatus, encArg, encCode>>

\* lines 263-266
CheckEmpty ==
    /\ pc = "check_empty"
    /\ IF Len(input_data.items) = 0
       THEN /\ stdout' = Append(stdout, EmptyEnvelope)
            /\ exitStatus' = 0
            /\ pc' = "done"
       ELSE /\ pc' = "load_model"
            /\ UNCHANGED <<stdout, exitStatus>>
    /\ UNCHANGED <<stdin, artifact, vocab, input_data, df, X, predictions, results,
                   predictFailed, exc, encArg, encCode>>

\* line 269
LoadModel ==
    /\ pc = "load_model"
    /\ IF load_model(artifact).type # NoExc
       THEN Raise(load_model(artifact))
       ELSE pc' = "prepare" /\ UNCHANGED exc
    /\ UNCHANGED <<stdin, artifact, vocab, input_data, df, X, predictions, results,
                   predictFailed, stdout, exitStatus, encArg, encCode>>

\* line 273, given what prepare_features returned or raised
AssignFrame(r) ==
    IF r.exc.type # NoExc
    THEN Raise(r.exc) /\ UNCHANGED df
    ELSE /\ df' = [cols |-> r.cols, rows |-> r.rows]
         /\ pc' = "encode"
         /\ UNCHANGED exc

\* line 273
PrepareFeatures ==
    /\ pc = "prepare"
    /\ AssignFrame(prepare_features(input_data.items))
    /\ UNCHANGED <<stdin, artifact, vocab, input_data, X, predictions, results,
                   predictFailed, stdout, exitStatus, encArg, encCode>>

\* lines 185-229 of predict_demand
EncodeFeatures ==
    /\ pc = "encode"
    /\ X' = AlignFeatures(get_dummies(df.rows), vocab)
    /\ pc' = "predict"
    /\ UNCHANGED <<stdin, artifact, vocab, input_data, df, predictions, results,
                   predictFailed, exc, stdout, exitStatus, encArg, encCode>>

\* lines 231-238: model.predict(X) returns a vector or raises
ModelPredict ==
    /\ pc = "predict"
    /\ \E raised \in BOOLEAN :
         IF raised
         THEN /\ predictions' = FallbackPredictions(Len(df.rows))
              /\ predictFailed' = TRUE
         ELSE /\ predictions' \in [1..Len(X) -> PredictionValues]
              /\ UNCHANGED predictFailed
    /\ pc' = "post"
    /\ UNCHANGED <<stdin, artifact, vocab, input_data, df, X, results,
                   exc, stdout, exitStatus, encArg, encCode>>

\* lines 240-252
PostProcess ==
    /\ pc = "post"
    /\ \E build \in Builds :
         results' = [i \in 1..Len(predictions) |-> PostProcessed[predictions[i]][build]]
    /\ pc' = "serialize"
    /\ UNCHANGED <<stdin, artifact, vocab, input_data, df, X, predictions,
                   predictFailed, exc, stdout, exitStatus, encArg, encCode>>

\* lines 280-299
Serialize ==
    /\ pc = "serialize"
    /\ stdout' = Append(stdout, SuccessEnvelope(
                    [i \in 1..Len(df.rows) |-> Recommendation(df, df.rows[i], results[i])]))
    /\ exitStatus' = 0
    /\ pc' = "done"
    /\ UNCHANGED <<stdin, artifact, vocab, input_data, df, X, predictions, results,
                   predictFailed, exc, encArg, encCode>>

\* lines 301-308
HandleFileNotFound ==
    /\ pc = "except"
    /\ exc.type = "FileNotFoundError"
    /\ stdout' = Append(stdout, NotFoundEnvelope(exc))
    /\ exitStatus' = 1
    /\ pc' = "done"
    /\ UNCHANGED <<stdin, artifact, vocab, input_data, df, X, predictions, results,
                   predictFailed, exc, encArg, encCode>>

\* faulty variant: the generic handler exits without printing its envelope
HandleException_Silent ==
    /\ pc = "except"
    /\ exc.type # "FileNotFoundError"
    /\ exitStatus' = 1
    /\ pc' = "done"
    /\ UNCHANGED <<stdin, artifact, vocab, input_data, df, X, predictions, results,
                   predictFailed, exc, stdout, encArg, encCode>>

\* lines 310-317
HandleException ==
    /\ pc = "except"
    /\ exc.type # "FileNotFoundError"
    /\ stdout' = Append(stdout, ErrorEnvelope(exc))
    /\ exitStatus' = 1
    /\ pc' = "done"
    /\ UNCHANGED <<stdin, artifact, vocab, input_data, df, X, predictions, results,
                   predictFailed, exc, encArg, encCode>>

Next ==
    \/ ReadInput
    \/ CheckList
    \/ CheckEmpty
    \/ LoadModel
    \/ PrepareFeatures
    \/ EncodeFeatures
    \/ ModelPredict
    \/ PostProcess
    \/ Serialize
    \/ HandleFileNotFound
    \/ HandleException

Spec == Init /\ [][Next]_vars

-----------------------------------------------------------------------------
(* A call of the legacy encoder encode_size on one argument *)

\* numeric arguments run over the quarters 0, 0.25, ..., MaxEncQuarter / 4
MaxEncQuarter == 60

EncodeInputs ==
    {e[1] : e \in EncodeSizeMap}
    \cup { None, <<>>, <<"X","X","S">>, <<"x","l">>, <<"w","i","d","e">>,
           <<"n","a","n">>, <<"i","n","f">>, <<"-","2",".","5">>, <<" ","7"," ">>,
           <<"\t","8","\n">>, <<"","8">>,
           <<"1","e","1">>, <<"1","_","0">>, <<"7","5","e","-","1">>,
           <<"1","E","2">>, <<"1","e","4","0","0">>, <<"1","e">>,
           \* literals longer than a double holds: 3.99999999999999999 is 4.0,
           \* 12.99999999999999999 and 13.0000000000000001 are 13.0, and
           \* 1.2e-323 is the subnormal 1e-323
           <<"3",".","9","9","9","9","9","9","9","9","9","9","9","9","9","9","9","9","9">>,
           <<"1","2",".","9","9","9","9","9","9","9","9","9","9","9","9","9","9","9","9","9">>,
           <<"1","3",".","0","0","0","0","0","0","0","0","0","0","0","0","0","0","0","1">>,
           <<"1",".","2","e","-","3","2","3">> }
    \cup {FloatStr(DecOf(25 * q, 2)) : q \in 0..MaxEncQuarter}
    \cup {NatStr(q \div 4) : q \in 0..MaxEncQuarter}

InitEncode ==
    /\ stdin = [kind |-> "list", items |-> <<>>]
    /\ artifact = "valid"
    /\ vocab = NoVocab
    /\ pc = "enc_call"
    /\ InitCommon
    /\ encArg \in EncodeInputs
    /\ encCode = -2

EncodeSizeCall ==
    /\ pc = "enc_call"
    /\ encCode' = encode_size(encArg)
    /\ pc' = "enc_done"
    /\ UNCHANGED <<stdin, artifact, vocab, input_data, df, X, predictions, results,
                   predictFailed, exc, stdout, exitStatus, encArg>>

SpecEncode == InitEncode /\ [][EncodeSizeCall]_vars

-----------------------------------------------------------------------------
(* Properties *)

Done == pc = "done"

\* the run ended with a success envelope
Succeeded == Done /\ Len(stdout) = 1 /\ stdout[1].success

\* the run ended with a failure envelope and a non-zero exit status
Failed ==
    /\ Done /\ Len(stdout) = 1 /\ ~stdout[1].success
    /\ DOMAIN stdout[1] = {"success", "error", "message"}
    /\ exitStatus # 0

NonEmptyList == stdin.kind = "list" /\ Len(stdin.items) > 0

\* the type cell prepare_features reads for input record i
InputType(i) == Cell(stdin.items, i, TypeColumn(Columns(stdin.items)))
InputSize(i) == Cell(stdin.items, i, "size")

\* SizeNormalizer of the specification (4.1): canonicalSize is null for a
\* null or empty size in every family, and for a size that does not parse
\* as a number in the MEASURED family
SpecCanonicalNull(type_cell, size) ==
    \/ IsNa(size)
    \/ size = <<>>
    \/ (Family(type_cell) = "MEASURED" /\ PyFloat(size).k \in {"err", "nan"})

\* the frame's index: the input positions of the surviving rows
SurvivorIndex == [r \in 1..Len(df.rows) |-> df.rows[r].idx]

RECURSIVE Ascending(_, _, _)
\* the members of S among i..n, ascending
Ascending(S, i, n) ==
    IF i > n THEN <<>>
    ELSE (IF i \in S THEN <<i>> ELSE <<>>) \o Ascending(S, i + 1, n)

\* C1 (as claimed): a success envelope of a non-empty batch holds one
\* recommendation per input record whose canonicalSize, by the specification's
\* SizeNormalizer, is non-null, none for the others, in input order, and
\* count is that number.
C1_OneRowPerSpecSurvivor ==
    (Succeeded /\ NonEmptyList) =>
        LET keep == {i \in 1..Len(stdin.items) :
                        ~SpecCanonicalNull(InputType(i), InputSize(i))}
            recs == stdout[1].recommendations
        IN  /\ Len(recs) = Cardinality(keep)
            /\ stdout[1].count = Cardinality(keep)
            /\ SurvivorIndex = Ascending(keep, 1, Len(stdin.items))
            /\ \A r \in 1..Len(recs) : recs[r].size = df.rows[r].size

\* the TLC integer of an int64 of at most seven digits
SmallInt(v) == IF v.neg THEN 0 - DigitsVal(v.digs) ELSE DigitsVal(v.digs)

\* a < b for two int64 not below 0
Int64Less(a, b) ==
    \/ Len(a.digs) < Len(b.digs)
    \/ (Len(a.digs) = Len(b.digs) /\ StrLess(a.digs, b.digs))

\* C2 (as claimed): in every success envelope forecasted_demand is an
\* integer >= 0 and recommended_stock is the integer
\* max(round(forecasted_demand * 1.15), 2), a nearest integer of
\* 1.15 * forecasted_demand floored at 2 and so above a demand of seven
\* digits or more, whatever the model returned and whether or not it raised.
C2_StockFormula ==
    Succeeded =>
        \A r \in 1..Len(stdout[1].recommendations) :
            LET d  == stdout[1].recommendations[r].forecasted_demand
                st == stdout[1].recommendations[r].recommended_stock
            IN  /\ d.k = "int" /\ ~d.neg
                /\ st.k = "int" /\ ~st.neg
                /\ st.digs \notin {<<"0">>, <<"1">>}
                /\ Len(d.digs) > 7 => Int64Less(d, st)
                /\ Len(d.digs) <= 7 =>
                      /\ Len(st.digs) <= 8
                      /\ SmallInt(st) > 2 =>
                            (20 * SmallInt(st) - 23 * SmallInt(d)) \in -10..10
                      /\ SmallInt(st) = 2 => 23 * SmallInt(d) <= 50

\* C3: when model.predict raises, the exception is not propagated: the run
\* goes on to a success envelope with exit status 0 holding one row per
\* surviving record, each with forecasted_demand 2 and recommended_stock 2.
C3_FallbackOnPredictFailure ==
    predictFailed =>
        /\ exc = NoException
        /\ pc \in {"post", "serialize", "done"}
        /\ Len(df.rows) > 0
        /\ Done =>
             /\ Succeeded /\ exitStatus = 0
             /\ Len(stdout[1].recommendations) = Len(df.rows)
             /\ stdout[1].count = Len(df.rows)
             /\ \A r \in 1..Len(df.rows) :
                   /\ stdout[1].recommendations[r].forecasted_demand = Int64Of(2)
                   /\ stdout[1].recommendations[r].recommended_stock = Int64Of(2)

C3_Witness == predictFailed /\ Succeeded /\ Len(stdout[1].recommendations) = 2

\* the matrix is built and the model supplies a vocabulary
MatrixBuilt == pc \in {"predict", "post", "serialize", "done"} /\ Len(df.rows) > 0

\* C4: with a vocabulary, the matrix passed to the model has one row per
\* surviving record and len(vocabulary) columns in vocabulary order; column i
\* is the batch's one-hot column named vocabulary[i] if the batch produced
\* it and all zero otherwise, so a cell is 1 exactly when the row's type
\* (size) is the value vocabulary[i] names, and batch columns outside the
\* vocabulary reach no cell.
C4_AlignedToVocabulary ==
    (MatrixBuilt /\ vocab.has) =>
        LET E == get_dummies(df.rows)
        IN  /\ Len(X) = Len(df.rows)
            /\ \A r \in 1..Len(X) :
                 /\ Len(X[r]) = Len(vocab.names)
                 /\ \A i \in 1..Len(vocab.names) :
                      LET name == vocab.names[i]
                      IN  /\ X[r][i] =
                                IF \E j \in 1..Len(E.columns) : E.columns[j] = name
                                THEN E.values[r][CHOOSE j \in 1..Len(E.columns) :
                                                    E.columns[j] = name]
                                ELSE 0
                          /\ X[r][i] = 1 <=>
                                \/ name.f = "size" /\ df.rows[r].size = name.v
                                \/ /\ name.f = "uniform_type_gendered"
                                   /\ df.rows[r].uniform_type_gendered = name.v
                          /\ X[r][i] \in {0, 1}

\* a row of unseen size next to a vocabulary column the batch did not produce
C4_Witness ==
    /\ pc = "predict" /\ vocab.has /\ Len(df.rows) = 2
    /\ \E r \in 1..2 : \A i \in 1..Len(vocab.names) :
           vocab.names[i].f = "size" => X[r][i] = 0
    /\ \E r \in 1..2, i \in 1..Len(vocab.names) : X[r][i] = 1
    /\ \E i \in 1..Len(vocab.names) : \A r \in 1..2 : X[r][i] = 0
    /\ \E c \in {get_dummies(df.rows).columns[j] : j \in 1..Len(get_dummies(df.rows).columns)} :
           \A i \in 1..Len(vocab.names) : vocab.names[i] # c

\* C5 (as claimed): an empty array ends in exit status 0 with the envelope
\* {success: true, recommendations: [], count: 0}.
C5_EmptyEnvelopeHasCount ==
    (Done /\ stdin.kind = "list" /\ Len(stdin.items) = 0) =>
        /\ exitStatus = 0
        /\ stdout = << [success |-> TRUE, recommendations |-> <<>>, count |-> 0] >>

\* C6 (as claimed): with the artifact absent every input, the empty array and
\* a non-list included, ends with a non-zero exit status and the failure
\* envelope carrying the remediation message, no record normalised or
\* predicted.
C6_AbsentArtifactAlwaysFatal ==
    (artifact = "absent" /\ stdin.kind \in {"list", "object"}) =>
        /\ df.rows = <<>> /\ results = <<>>
        /\ Done => (Failed /\ stdout[1].message = RemediationMessage)

\* C6 (amended): with the artifact absent no record is ever normalised or
\* predicted and no non-empty batch succeeds; a non-empty JSON array ends
\* with exit status 1 and the failure envelope carrying the remediation
\* message, an empty array still ends with the success envelope, and invalid
\* JSON or a non-list ends with the generic failure envelope.
C6_AbsentArtifactFatalForBatch ==
    artifact = "absent" =>
        /\ pc \notin {"prepare", "encode", "predict", "post", "serialize"}
        /\ df.rows = <<>> /\ X = <<>> /\ predictions = <<>> /\ results = <<>>
        /\ Done =>
             /\ NonEmptyList =>
                  /\ Failed /\ exitStatus = 1
                  /\ stdout[1].message = RemediationMessage
                  /\ exc.type = "FileNotFoundError"
             /\ (stdin.kind = "list" /\ Len(stdin.items) = 0) =>
                  (Succeeded /\ stdout[1].recommendations = <<>>)
             /\ stdin.kind # "list" =>
                  (Failed /\ stdout[1].message # RemediationMessage)

C6_Witness ==
    /\ artifact = "absent" /\ NonEmptyList /\ Failed
    /\ stdout[1].message = RemediationMessage

\* C7 (as claimed): the records dropped before feature construction are
\* exactly those whose size is null or empty (any family) or, in the MEASURED
\* family, non-numeric; a record that is kept holds the trimmed, uppercased
\* token with 2XL and 3XL renamed (APPAREL), the parsed number (MEASURED) or
\* the value's string form (OTHER).
C7_DroppedIffSpecNull ==
    /\ pc = "encode" =>
         /\ {df.rows[r].idx : r \in 1..Len(df.rows)} =
               {i \in 1..Len(stdin.items) : ~SpecCanonicalNull(InputType(i), InputSize(i))}
         /\ \A r \in 1..Len(df.rows) :
               LET i   == df.rows[r].idx
                   fam == Family(InputType(i))
                   n   == df.rows[r].size_normalized
               IN  /\ fam = "APPAREL" =>
                        n = [t |-> "str", s |-> ClothSynonym(Upper(Strip(InputSize(i))))]
                   /\ fam = "MEASURED" => n = [t |-> "float", f |-> PyFloat(InputSize(i))]
                   /\ fam = "OTHER" => n = [t |-> "str", s |-> InputSize(i)]
    /\ (pc = "except" /\ exc.msg = "No valid data after filtering null sizes") =>
         \A i \in 1..Len(stdin.items) : SpecCanonicalNull(InputType(i), InputSize(i))

\* input record i lacks a required field: it has neither type nor
\* uniform_type, or it has no size
LacksRequiredField(i) ==
    \/ "size" \notin DOMAIN stdin.items[i]
    \/ ("type" \notin DOMAIN stdin.items[i] /\ "uniform_type" \notin DOMAIN stdin.items[i])

\* input record i is of the MEASURED family with a size float() rejects
UnparsableMeasured(i) ==
    Family(InputType(i)) = "MEASURED" /\ PyFloat(InputSize(i)).k = "err"

\* C8 (as claimed): the run ends in the failure envelope with a non-zero
\* exit status when the input is not a list, when a record of the batch lacks
\* a required field (type/uniform_type, or size), or when the size filter
\* leaves no record of a non-empty batch; a batch of which the size filter
\* keeps a record ends in a success envelope from which the unparsable
\* MEASURED records are missing.
C8_ValidationFailures ==
    Done =>
        /\ stdin.kind # "list" => Failed
        /\ (NonEmptyList /\ \E i \in 1..Len(stdin.items) : LacksRequiredField(i)) => Failed
        /\ (NonEmptyList /\ \A i \in 1..Len(stdin.items) :
                ~NotNa(NormalizeSize(InputType(i), InputSize(i)))) => Failed
        /\ Len(df.rows) >= 1 =>
               /\ Succeeded /\ exitStatus = 0
               /\ \A i \in 1..Len(stdin.items) :
                     UnparsableMeasured(i) => \A r \in 1..Len(df.rows) : df.rows[r].idx # i
               /\ Len(stdout[1].recommendations) = Len(df.rows)

\* the stages of main() that have a next statement, in program order
StageRank ==
    [ read |-> 1, check_list |-> 2, check_empty |-> 3, load_model |-> 4,
      prepare |-> 5, encode |-> 6, predict |-> 7, post |-> 8, serialize |-> 9,
      except |-> 10 ]

\* a step moves main() to a later stage, or ends it
Advances == pc' = "done" \/ (pc' \in DOMAIN StageRank /\ StageRank[pc'] > StageRank[pc])

\* while main() runs nothing is on stdout; when it has ended exactly one
\* envelope is on stdout, a success envelope with exit status 0 or the
\* failure envelope {success: false, error, message} with exit status 1
EnvelopeDiscipline ==
    /\ ~Done => (stdout = <<>> /\ exitStatus = -1 /\ pc \in DOMAIN StageRank)
    /\ Done =>
         /\ Len(stdout) = 1
         /\ \/ /\ stdout[1].success
               /\ "recommendations" \in DOMAIN stdout[1]
               /\ exitStatus = 0
               /\ exc = NoException
            \/ /\ ~stdout[1].success
               /\ DOMAIN stdout[1] = {"success", "error", "message"}
               /\ exitStatus = 1
               /\ exc # NoException

\* C9: over every path through its stages an invocation only moves forward
\* through finitely many stages, each of which has a next statement, until
\* it ends; nothing is printed before it ends, and when it has ended exactly
\* one envelope is on stdout: a success envelope with exit status 0, or the
\* failure envelope {success: false, error, message}, which carries no
\* recommendations, with exit status 1.
C9_ExactlyOneEnvelope == []EnvelopeDiscipline /\ [][Advances]_vars

\* a failure raised after the model was loaded and the batch normalised
C9_Witness ==
    /\ Done /\ exitStatus = 1 /\ Len(stdout) = 1
    /\ stdout[1].error = "No valid data after filtering null sizes"

\* the number f has no fractional part
IsIntegral(f) == Len(f.digs) <= f.pt \/ f.digs = <<>>

\* C10 (as claimed): encode_size maps a numeric size in [4, 13] to value + 6,
\* a numeric size in [6.5, 8.0] to floor(value * 4) + 5, and a size that is
\* neither a token of its table nor in one of those ranges to -1.
C10_EncodeSizeRanges ==
    pc = "enc_done" =>
        LET f == PyFloat(encArg)
            known == \E e \in EncodeSizeMap : e[1] = encArg
            shoe  == ~IsNa(encArg) /\ FloatBetween(f, 40, 130)
            beret == ~IsNa(encArg) /\ FloatBetween(f, 65, 80)
        IN  /\ (~known /\ shoe)  => (IsIntegral(f) /\ encCode = FloatInt(f) + 6)
            /\ (~known /\ beret) => encCode = FloatInt(FloatTimes(f, 4)) + 5
            /\ (~known /\ ~shoe /\ ~beret) => encCode = -1

====
